---- MODULE Spec2Model ----
(***************************************************************************)
(* The metadata synchronization engine of obsidian-meta-bind-plugin:       *)
(* MetadataManager (src/src/MetadataManager.ts), the per-file cache, its   *)
(* listeners, the periodic update cycle and the frontmatter echo check.    *)
(***************************************************************************)
EXTENDS Integers, Sequences, FiniteSets, TLC

(***************************************************************************)
(* Bounds of the model.                                                    *)
(***************************************************************************)
\* reads that may be pending on caches already taken off the table
MaxOrphans == 1
\* cap of cyclesSinceLastUpdate (ticks stop once an entry reaches it)
MaxCycles == 5
\* frontmatter writes that may be in flight at once
MaxInflight == 2
\* cap of an input field's valueQueue
MaxQueue == 3
\* incrementInterval runs of an input field that may be awaiting at once
MaxRuns == 2

\* MetadataManager.updateCycleThreshold
updateCycleThreshold == 5

(***************************************************************************)
(* Structured values.  A JavaScript value is undefined, a number, or an    *)
(* object; an object has an identity (ref) that === compares, and fields.  *)
(***************************************************************************)
Undef == [k |-> "undef"]
Num(n) == [k |-> "num", n |-> n]
NoFields == [x \in {} |-> Undef]
Obj(r, fs) == [k |-> "obj", ref |-> r, f |-> fs]

IsObj(v) == v.k = "obj"

\* the identity of the root object of a cache's metadata is never compared
RootRef == "root"
\* identity of the objects that parsing a file or a frontmatter produces
ParsedRef == "parsed"
Root(fs) == Obj(RootRef, fs)
EmptyMetadata == Root(NoFields)

\* o[key] of JavaScript for the values of the model
GetProp(o, key) ==
    IF IsObj(o) /\ key \in DOMAIN o.f THEN o.f[key] ELSE Undef

\* o[key] = v on an object
SetProp(o, key, v) ==
    [o EXCEPT !.f = [x \in (DOMAIN o.f) \cup {key} |-> IF x = key THEN v ELSE o.f[x]]]

\* delete o[key]
DeleteProp(o, key) ==
    [o EXCEPT !.f = [x \in (DOMAIN o.f) \ {key} |-> o.f[x]]]

\* the === of JavaScript: numbers by value, objects by identity
StrictEquals(v, w) ==
    \/ v.k = "undef" /\ w.k = "undef"
    \/ v.k = "num" /\ w.k = "num" /\ v.n = w.n
    \/ v.k = "obj" /\ w.k = "obj" /\ v.ref = w.ref

\* deep structural equality: the same tree whatever the identities
RECURSIVE DeepEquals(_, _)
DeepEquals(v, w) ==
    IF v.k = "obj" /\ w.k = "obj"
    THEN /\ DOMAIN v.f = DOMAIN w.f
         /\ \A x \in DOMAIN v.f : DeepEquals(v.f[x], w.f[x])
    ELSE /\ v.k = w.k
         /\ v.k = "num" => v.n = w.n

\* traverseObjectByPath(pathParts, o): undefined as soon as a segment is missing
RECURSIVE traverseObjectByPath(_, _)
traverseObjectByPath(pathParts, o) ==
    IF pathParts = <<>> THEN o
    ELSE IF ~IsObj(o) THEN Undef
    ELSE traverseObjectByPath(Tail(pathParts), GetProp(o, Head(pathParts)))

\* traverseObjectToParentByPath(pathParts, o): the parent node and the child
traverseObjectToParentByPath(pathParts, o) ==
    LET parentPath == SubSeq(pathParts, 1, Len(pathParts) - 1)
        childKey == pathParts[Len(pathParts)]
        parentObject == traverseObjectByPath(parentPath, o)
    IN  [parent |-> [key |-> parentPath, value |-> parentObject],
         child |-> [key |-> childKey, value |-> GetProp(parentObject, childKey)]]

\* arrayEquals(a, b): the same segments in the same order
arrayEquals(a, b) ==
    /\ Len(a) = Len(b)
    /\ \A i \in 1..Len(a) : a[i] = b[i]

\* the tree o with the node at parentPath given the field key = v
\* (parent.value[child.key] = value, the parent being an object of the tree)
RECURSIVE SetAtPath(_, _, _, _)
SetAtPath(o, parentPath, key, v) ==
    IF parentPath = <<>> THEN SetProp(o, key, v)
    ELSE SetProp(o, Head(parentPath),
                 SetAtPath(o.f[Head(parentPath)], Tail(parentPath), key, v))

(***************************************************************************)
(* State.                                                                  *)
(***************************************************************************)
VARIABLES
    scenario,   \* the environment the run is set in (fixed by Init)
    cache,      \* MetadataManager.cache: the MetadataFileCache objects of the table
    orphans,    \* per file, the pending reads of caches taken off the table
    writes,     \* per file, the setFrontmatterOfTFile calls not yet settled
    issued,     \* the setFrontmatterOfTFile calls the last operation made
    calls,      \* the onCacheUpdate callbacks the last operation invoked
    last,       \* the last operation and how it ended
    pending,    \* per file, the property updates no write has carried yet
    echo,       \* per file, how far an accepted 'changed' event has got: "none",
                \* "accepted" (in the cache, not written yet) or "written"
    valueQueue, \* InputFieldMarkdownRenderChild.valueQueue of one input field
    awaiting,   \* the incrementInterval runs of the field suspended at their await
    pushed,     \* the value the field pushed last (NoValue: none yet)
    passed      \* the value passed last to plugin.updateMetaData (NoValue: none)

fieldVars == <<valueQueue, awaiting, pushed, passed>>

vars == <<scenario, cache, orphans, writes, issued, calls, last, pending, echo,
          fieldVars>>

(***************************************************************************)
(* The environment: files, bound consumers, the values they push, and the  *)
(* contents the vault may hold.  Four environments are explored:           *)
(*   "broadcast": one file, two fields bound to a.b and one bound to a;    *)
(*   "values":    one file, a field pushing numbers and objects to a;      *)
(*   "files":     two files with one field each;                           *)
(*   "merge":     one file, a field bound to a and a field bound to c.     *)
(***************************************************************************)
Scenarios == {"broadcast", "values", "files", "merge"}
NoFile == "none"
\* the values an input field pushes, and the mark of none pushed yet
NoValue == 0
FieldValues == {1, 2, 3}
NoUuid == "undefined"

Files == IF scenario = "files" THEN {"f1", "f2"} ELSE {"f1"}

\* an input field: a fixed uuid, bind target file and bind target path
Consumers ==
    IF scenario = "broadcast"
    THEN { [uuid |-> "u1", file |-> "f1", metadataPath |-> <<"a", "b">>],
           [uuid |-> "u2", file |-> "f1", metadataPath |-> <<"a", "b">>],
           [uuid |-> "u3", file |-> "f1", metadataPath |-> <<"a">>] }
    ELSE IF scenario = "values"
    THEN { [uuid |-> "u3", file |-> "f1", metadataPath |-> <<"a">>] }
    ELSE IF scenario = "merge"
    THEN { [uuid |-> "u5", file |-> "f1", metadataPath |-> <<"a">>],
           [uuid |-> "u6", file |-> "f1", metadataPath |-> <<"c">>] }
    ELSE { [uuid |-> "u1", file |-> "f1", metadataPath |-> <<"a", "b">>],
           [uuid |-> "u4", file |-> "f2", metadataPath |-> <<"a">>] }

Listener(c) == [uuid |-> c.uuid, metadataPath |-> c.metadataPath]

\* two objects that are deep-equal and distinct
ObjOne == Obj("one", [b |-> Num(1)])
ObjTwo == Obj("two", [b |-> Num(1)])

\* the values a consumer pushes
PushedValues(c) ==
    IF scenario = "broadcast"
    THEN IF c.uuid = "u1" THEN {Num(1), Num(2)} ELSE {}
    ELSE IF scenario = "values"
    THEN {Num(1), ObjOne, ObjTwo}
    ELSE IF scenario = "merge"
    THEN IF c.uuid = "u5" THEN {Num(1)} ELSE {Num(2)}
    ELSE IF c.uuid = "u1" THEN {Num(1)} ELSE {}

\* metadata read from a file's content (getMetaDataFromFileContent(value) ?? {})
FileContents(file) ==
    IF file = NoFile THEN {}
    ELSE IF scenario = "broadcast"
    THEN {Root([a |-> Obj(ParsedRef, [b |-> Num(1)])])}
    ELSE {EmptyMetadata}

\* the position entry Obsidian keeps in a cached frontmatter
Position == Num(0)

\* cache.frontmatter of a 'changed' event: undefined, or the file's frontmatter
Frontmatters(file) ==
    IF scenario = "broadcast"
    THEN {Root([a |-> Obj(ParsedRef, [b |-> Num(2)]), position |-> Position])}
    ELSE IF scenario = "values"
    THEN {Undef}
    ELSE IF scenario = "merge"
    THEN {}
    ELSE IF file = "f1"
    THEN {Root([a |-> Num(1), position |-> Position])}
    ELSE {}

\* the record of an operation: its name, its file, uuid and value arguments
\* (NoFile, NoUuid, Undef when it has none) and how it ended
Op(name, file, uuid, arg, outcome) ==
    [op |-> name, file |-> file, uuid |-> uuid, arg |-> arg, outcome |-> outcome]

\* The writes in flight of one file are counted: those of the cache that is
\* the file's cache in the table, and those of caches since taken off it.
NoWrites == [attached |-> 0, detached |-> 0]

RECURSIVE InFlightOf(_, _)
InFlightOf(w, S) ==
    IF S = {} THEN 0
    ELSE LET f == CHOOSE y \in S : TRUE
         IN  w[f].attached + w[f].detached + InFlightOf(w, S \ {f})

InFlight(w) == InFlightOf(w, DOMAIN w)

RECURSIVE OrphansOf(_, _)
OrphansOf(o, S) ==
    IF S = {} THEN 0
    ELSE LET f == CHOOSE y \in S : TRUE
         IN  o[f] + OrphansOf(o, S \ {f})

\* The property updates of a file's cache that no setFrontmatterOfTFile call
\* has carried yet: the value last set at each path.  A later update of a
\* path, of a prefix or of an extension of it replaces the earlier one.
NoEdits == [p \in {} |-> Undef]

IsPrefix(p, q) == Len(p) <= Len(q) /\ SubSeq(q, 1, Len(p)) = p

Comparable(p, q) == IsPrefix(p, q) \/ IsPrefix(q, p)

edited(edits, pathParts, value) ==
    [p \in {q \in DOMAIN edits : ~Comparable(q, pathParts)} \cup {pathParts} |->
        IF p = pathParts THEN value ELSE edits[p]]

\* the updates a write of the metadata does not carry
notCarried(edits, metadata) ==
    [p \in {q \in DOMAIN edits : traverseObjectByPath(q, metadata) # edits[q]} |->
        edits[p]]

Init ==
    /\ scenario \in Scenarios
    /\ cache = <<>>
    /\ orphans = [f \in Files |-> 0]
    /\ writes = [f \in Files |-> NoWrites]
    /\ issued = <<>>
    /\ calls = <<>>
    /\ last = Op("constructor", NoFile, NoUuid, Undef, "ok")
    /\ pending = [f \in Files |-> NoEdits]
    /\ echo = [f \in Files |-> "none"]
    /\ valueQueue = <<>>
    /\ awaiting = 0
    /\ pushed = NoValue
    /\ passed = NoValue

(***************************************************************************)
(* getCacheForFile(file): the index in the table of the first cache with   *)
(* the file's path; 0 for undefined.                                       *)
(***************************************************************************)
getCacheForFileNone(file) == 0

getCacheForFile(file) ==
    LET hits == {i \in 1..Len(cache) : cache[i].file = file}
    IN  IF hits = {} THEN 0
        ELSE CHOOSE i \in hits : \A j \in hits : i <= j

(***************************************************************************)
(* notifyListeners(fileCache, metadataPath?, exceptUuid?): the callbacks   *)
(* invoked, in order.  metadataPath is {} (undefined) or {path}.           *)
(***************************************************************************)
isExceptedNever(exceptUuid, listener) == FALSE

\* the test of line 171 for the listener to skip
isExcepted(exceptUuid, listener) ==
    exceptUuid # NoUuid /\ exceptUuid = listener.uuid

notifyListeners(fileCache, metadataPath, exceptUuid) ==
    LET n == Len(fileCache.listeners)
        value == IF metadataPath # {}
                 THEN traverseObjectByPath(CHOOSE p \in metadataPath : TRUE,
                                           fileCache.metadata)
                 ELSE Undef
        Notified(i) ==
            LET listener == fileCache.listeners[i]
            IN  /\ ~isExcepted(exceptUuid, listener)
                /\ \A p \in metadataPath : arrayEquals(p, listener.metadataPath)
        Call(i) ==
            LET listener == fileCache.listeners[i]
            IN  [listener |-> i, uuid |-> listener.uuid,
                 value |-> IF metadataPath # {} THEN value
                           ELSE traverseObjectByPath(listener.metadataPath,
                                                     fileCache.metadata)]
        idx == SelectSeq([i \in 1..n |-> i], Notified)
    IN  [j \in 1..Len(idx) |-> Call(idx[j])]

(***************************************************************************)
(* register(file, onCacheUpdate, metadataPath, uuid)                       *)
(***************************************************************************)
\* the object of lines 45-51; reading (bookkeeping of the model) says that the
\* cachedRead whose callback holds the object has not settled
newFileCache(c) ==
    [file |-> c.file, metadata |-> EmptyMetadata, listeners |-> <<Listener(c)>>,
     cyclesSinceLastUpdate |-> 0, changed |-> FALSE, reading |-> TRUE]

register(c) ==
    LET fileCache == getCacheForFile(c.file)
    IN  /\ calls' = <<>>
        /\ issued' = <<>>
        /\ UNCHANGED <<orphans, writes>>
        /\ IF fileCache # 0
           THEN /\ cache' = [cache EXCEPT ![fileCache].listeners = Append(@, Listener(c))]
                /\ last' = Op("register", c.file, c.uuid, Undef, "existing")
                /\ UNCHANGED <<pending, echo>>
           ELSE /\ cache' = Append(cache, newFileCache(c))
                /\ last' = Op("register", c.file, c.uuid, Undef, "created")
                /\ pending' = [pending EXCEPT ![c.file] = NoEdits]
                /\ echo' = [echo EXCEPT ![c.file] = "none"]

(***************************************************************************)
(* unregister(file, uuid)                                                  *)
(***************************************************************************)
\* fileCache.listeners.filter(x => x.uuid !== uuid)
withoutListener(listeners, uuid) == SelectSeq(listeners, LAMBDA x : x.uuid # uuid)

withoutFileKeepsAll(table, file) == table

\* this.cache.filter(x => x.file.path !== file.path)
withoutFile(table, file) == SelectSeq(table, LAMBDA x : x.file # file)

\* the reads still pending on the caches of the file in the table
ReadsOf(table, file) ==
    Cardinality({i \in 1..Len(table) : table[i].file = file /\ table[i].reading})

isUnusedNever(listeners) == FALSE

\* the test of line 73 for a cache nobody listens to
isUnused(listeners) == Len(listeners) = 0

unregister(file, uuid) ==
    LET fileCache == getCacheForFile(file)
    IN  /\ calls' = <<>>
        /\ issued' = <<>>
        /\ UNCHANGED pending
        /\ echo' = IF fileCache # 0
                          /\ isUnused(withoutListener(cache[fileCache].listeners, uuid))
                       THEN [echo EXCEPT ![file] = "none"]
                       ELSE echo
        /\ IF fileCache = 0
           THEN /\ last' = Op("unregister", file, uuid, Undef, "noCache")
                /\ UNCHANGED <<cache, orphans, writes>>
           ELSE LET kept == withoutListener(cache[fileCache].listeners, uuid)
                    filtered == [cache EXCEPT ![fileCache].listeners = kept]
                IN  IF isUnused(kept)
                    THEN /\ OrphansOf(orphans, DOMAIN orphans) + ReadsOf(filtered, file)
                                <= MaxOrphans
                         /\ cache' = withoutFile(filtered, file)
                         /\ orphans' = [orphans EXCEPT ![file] = @ + ReadsOf(filtered, file)]
                         /\ writes' = [writes EXCEPT ![file] =
                                        [attached |-> 0,
                                         detached |-> @.detached + @.attached]]
                         /\ last' = Op("unregister", file, uuid, Undef, "deleted")
                    ELSE /\ cache' = filtered
                         /\ last' = Op("unregister", file, uuid, Undef, "kept")
                         /\ UNCHANGED <<orphans, writes>>

(***************************************************************************)
(* update(): the periodic cycle, with the synchronous part of              *)
(* updateFrontmatter(fileCache) for every changed cache.                   *)
(***************************************************************************)
IsChanged(fileCache) == fileCache.changed

\* the call updateFrontmatter(fileCache) makes: setFrontmatterOfTFile(metadata, file)
updateFrontmatter(fileCache) ==
    [file |-> fileCache.file, metadata |-> fileCache.metadata]

updatedKeepsChanged(fileCache) ==
    [fileCache EXCEPT !.cyclesSinceLastUpdate = @ + 1]

\* what update() leaves of one cache of the table
updated(fileCache) ==
    [fileCache EXCEPT
        !.changed = FALSE,
        !.cyclesSinceLastUpdate = @ + 1]

update ==
    LET dirty == SelectSeq(cache, IsChanged)
    IN  /\ \A i \in 1..Len(cache) : cache[i].cyclesSinceLastUpdate < MaxCycles
        /\ InFlight(writes) + Len(dirty) <= MaxInflight
        /\ issued' = [i \in 1..Len(dirty) |-> updateFrontmatter(dirty[i])]
        /\ writes' = [f \in DOMAIN writes |->
                        [writes[f] EXCEPT !.attached =
                            @ + Cardinality({i \in 1..Len(dirty) : dirty[i].file = f})]]
        /\ cache' = [i \in 1..Len(cache) |-> updated(cache[i])]
        /\ calls' = <<>>
        /\ last' = Op("update", NoFile, NoUuid, Undef, "ok")
        /\ pending' = [f \in DOMAIN pending |->
                        IF \E i \in 1..Len(dirty) : dirty[i].file = f
                        THEN notCarried(pending[f],
                                (CHOOSE w \in {issued'[k] : k \in 1..Len(issued')} :
                                    w.file = f).metadata)
                        ELSE pending[f]]
        /\ echo' = [f \in DOMAIN echo |->
                        IF (\E i \in 1..Len(dirty) : dirty[i].file = f)
                           /\ echo[f] = "accepted"
                        THEN "written"
                        ELSE echo[f]]
        /\ UNCHANGED orphans

(***************************************************************************)
(* The settling of a frontmatter write: updateFrontmatter awaits           *)
(* setFrontmatterOfTFile and does nothing after it; update() neither       *)
(* awaits nor catches the promise it returns.                              *)
(***************************************************************************)
writeSettles(file, attached, settled) ==
    /\ file \in DOMAIN writes
    /\ IF attached
       THEN /\ writes[file].attached > 0
            /\ writes' = [writes EXCEPT ![file].attached = @ - 1]
       ELSE /\ writes[file].detached > 0
            /\ writes' = [writes EXCEPT ![file].detached = @ - 1]
    /\ calls' = <<>>
    /\ issued' = <<>>
    /\ last' = Op("updateFrontmatter", file, NoUuid, Undef,
                  IF attached THEN settled ELSE settled \o "Detached")
    /\ UNCHANGED <<cache, orphans, pending, echo>>

writeResolves(file, attached) == writeSettles(file, attached, "resolved")

writeRejects(file, attached) == writeSettles(file, attached, "rejected")

(***************************************************************************)
(* The settling of the cachedRead(file) that register started for the      *)
(* cache c it created: c.metadata = ...; this.notifyListeners(c).          *)
(***************************************************************************)
loadedKeepsMetadata(c, content) == [c EXCEPT !.reading = FALSE]

\* the callback of lines 53-57 on the object c
loaded(c, content) == [c EXCEPT !.metadata = content, !.reading = FALSE]

\* c is the i-th cache of the table
readResolves(i, content) ==
    /\ i \in 1..Len(cache)
    /\ cache[i].reading
    /\ cache' = [cache EXCEPT ![i] = loaded(@, content)]
    /\ calls' = notifyListeners(loaded(cache[i], content), {}, NoUuid)
    /\ issued' = <<>>
    /\ last' = Op("cachedRead", cache[i].file, NoUuid, Undef, "resolved")
    /\ UNCHANGED <<orphans, writes, pending>>
    /\ echo' = [echo EXCEPT ![cache[i].file] = "none"]

readRejects(i) ==
    /\ i \in 1..Len(cache)
    /\ cache[i].reading
    /\ cache' = [cache EXCEPT ![i].reading = FALSE]
    /\ calls' = <<>>
    /\ issued' = <<>>
    /\ last' = Op("cachedRead", cache[i].file, NoUuid, Undef, "rejected")
    /\ UNCHANGED <<orphans, writes, pending, echo>>

DetachedIsCurrent(file) ==
    IF getCacheForFile(file) # 0
    THEN cache[getCacheForFile(file)]
    ELSE [file |-> file, metadata |-> EmptyMetadata, listeners |-> <<>>,
          cyclesSinceLastUpdate |-> 0, changed |-> FALSE, reading |-> TRUE]

\* A cache taken off the table has no listeners (unregister removes it when
\* the last one goes), and the callback of a read still pending on it reads
\* no other field of it.
Detached(file) ==
    [file |-> file, metadata |-> EmptyMetadata, listeners |-> <<>>,
     cyclesSinceLastUpdate |-> 0, changed |-> FALSE, reading |-> TRUE]

\* c is a cache of the file that unregister took off the table
orphanReadResolves(file, content) ==
    /\ file \in DOMAIN orphans
    /\ orphans[file] > 0
    /\ orphans' = [orphans EXCEPT ![file] = @ - 1]
    /\ calls' = notifyListeners(loaded(Detached(file), content), {}, NoUuid)
    /\ issued' = <<>>
    /\ last' = Op("cachedRead", file, NoUuid, Undef, "resolvedDetached")
    /\ UNCHANGED <<cache, writes, pending, echo>>

orphanReadRejects(file) ==
    /\ file \in DOMAIN orphans
    /\ orphans[file] > 0
    /\ orphans' = [orphans EXCEPT ![file] = @ - 1]
    /\ calls' = <<>>
    /\ issued' = <<>>
    /\ last' = Op("cachedRead", file, NoUuid, Undef, "rejectedDetached")
    /\ UNCHANGED <<cache, writes, pending, echo>>

(***************************************************************************)
(* updateMetadataFileCache(metadata, file, uuid?)                          *)
(***************************************************************************)
updateMetadataFileCache(metadata, file, uuid) ==
    LET fileCache == getCacheForFile(file)
    IN  /\ UNCHANGED <<orphans, writes>>
        /\ issued' = <<>>
        /\ IF fileCache = 0
           THEN /\ last' = Op("updateMetadataFileCache", file, uuid, Undef, "noCache")
                /\ calls' = <<>>
                /\ UNCHANGED <<cache, pending, echo>>
           ELSE LET replaced == [cache[fileCache] EXCEPT
                                    !.metadata = metadata,
                                    !.cyclesSinceLastUpdate = 0]
                IN  /\ cache' = [cache EXCEPT ![fileCache] = replaced]
                    /\ calls' = notifyListeners(replaced, {}, uuid)
                    /\ last' = Op("updateMetadataFileCache", file, uuid, Undef, "replaced")
                    /\ pending' = [pending EXCEPT ![file] = NoEdits]
                    /\ echo' = [echo EXCEPT ![file] = "none"]

(***************************************************************************)
(* updatePropertyInMetadataFileCache(value, pathParts, file, uuid?)        *)
(***************************************************************************)
\* the test of line 130 for a redundant update
isRedundantUpdate(childValue, value) == StrictEquals(childValue, value)

\* lines 135-137 on the cache
written(fileCache, parentPath, childKey, value) ==
    [fileCache EXCEPT
        !.metadata = SetAtPath(@, parentPath, childKey, value),
        !.cyclesSinceLastUpdate = 0,
        !.changed = TRUE]

\* the test of line 126 for a parent that does not exist
parentMissing(parent) == parent.value = Undef

updatePropertyInMetadataFileCache(value, pathParts, file, uuid) ==
    LET fileCache == getCacheForFile(file)
    IN  /\ UNCHANGED <<orphans, writes>>
        /\ issued' = <<>>
        /\ IF fileCache = 0
           THEN /\ last' = Op("updateProperty", file, uuid, value, "noCache")
                /\ calls' = <<>>
                /\ UNCHANGED <<cache, pending, echo>>
           ELSE LET t == traverseObjectToParentByPath(pathParts, cache[fileCache].metadata)
                IN  IF parentMissing(t.parent)
                    THEN \* throw Error("The parent of ... does not exist in Object")
                         /\ last' = Op("updateProperty", file, uuid, value, "throwsParentMissing")
                         /\ calls' = <<>>
                         /\ UNCHANGED <<cache, pending, echo>>
                    ELSE IF isRedundantUpdate(t.child.value, value)
                    THEN /\ last' = Op("updateProperty", file, uuid, value, "skipped")
                         /\ calls' = <<>>
                         /\ UNCHANGED <<cache, pending, echo>>
                    ELSE IF ~IsObj(t.parent.value)
                    THEN \* the assignment to a property of a number throws a
                         \* TypeError in the strict mode code of a class body
                         /\ last' = Op("updateProperty", file, uuid, value, "throwsTypeError")
                         /\ calls' = <<>>
                         /\ UNCHANGED <<cache, pending, echo>>
                    ELSE LET w == written(cache[fileCache], t.parent.key, t.child.key, value)
                         IN  /\ cache' = [cache EXCEPT ![fileCache] = w]
                             /\ calls' = notifyListeners(w, {pathParts}, uuid)
                             /\ last' = Op("updateProperty", file, uuid, value, "set")
                             /\ pending' = [pending EXCEPT ![file] =
                                                edited(@, pathParts, value)]
                             /\ echo' = [echo EXCEPT ![file] = "none"]

(***************************************************************************)
(* updateMetadataFileCacheOnFrontmatterUpdate(file, data, cache): the      *)
(* handler of the metadata cache's 'changed' event.                        *)
(***************************************************************************)
isProbableEchoOffByOne(fileCache) ==
    fileCache.cyclesSinceLastUpdate < updateCycleThreshold - 1

\* the echo test of line 148
isProbableEcho(fileCache) == fileCache.cyclesSinceLastUpdate < updateCycleThreshold

frontmatterCopyKeepsPosition(frontmatter) ==
    IF frontmatter = Undef THEN EmptyMetadata ELSE Root(frontmatter.f)

\* Object.assign({}, cache.frontmatter) without its position
frontmatterCopy(frontmatter) ==
    IF frontmatter = Undef THEN EmptyMetadata
    ELSE DeleteProp(Root(frontmatter.f), "position")

\* lines 157-159 on the cache
accepted(fileCache, frontmatter) ==
    [fileCache EXCEPT
        !.metadata = frontmatterCopy(frontmatter),
        !.cyclesSinceLastUpdate = 0,
        !.changed = TRUE]

updateMetadataFileCacheOnFrontmatterUpdate(file, frontmatter) ==
    LET fileCache == getCacheForFile(file)
    IN  /\ UNCHANGED <<orphans, writes>>
        /\ issued' = <<>>
        /\ IF fileCache = 0
           THEN /\ last' = Op("frontmatterUpdate", file, NoUuid, frontmatter, "noCache")
                /\ calls' = <<>>
                /\ UNCHANGED <<cache, pending, echo>>
           ELSE IF isProbableEcho(cache[fileCache])
           THEN /\ last' = Op("frontmatterUpdate", file, NoUuid, frontmatter, "dropped")
                /\ calls' = <<>>
                /\ UNCHANGED <<cache, pending, echo>>
           ELSE LET a == accepted(cache[fileCache], frontmatter)
                IN  /\ cache' = [cache EXCEPT ![fileCache] = a]
                    /\ calls' = notifyListeners(a, {}, NoUuid)
                    /\ last' = Op("frontmatterUpdate", file, NoUuid, frontmatter, "applied")
                    /\ pending' = [pending EXCEPT ![file] = NoEdits]
                    /\ echo' = [echo EXCEPT ![file] = "accepted"]

\* an input field registers on load and unregisters on unload
Registered(c) ==
    \E i \in 1..Len(cache) :
        /\ cache[i].file = c.file
        /\ \E j \in 1..Len(cache[i].listeners) : cache[i].listeners[j].uuid = c.uuid

(***************************************************************************)
(* The steps of the system: the calls of the bound consumers, the timer,   *)
(* the 'changed' events and the settling of the pending reads and writes.  *)
(***************************************************************************)
Register ==
    /\ \E c \in Consumers : ~Registered(c) /\ register(c)
    /\ UNCHANGED <<scenario, fieldVars>>

Unregister ==
    /\ \E c \in Consumers : unregister(c.file, c.uuid)
    /\ UNCHANGED <<scenario, fieldVars>>

Update ==
    /\ update
    /\ UNCHANGED <<scenario, fieldVars>>

WriteResolves ==
    /\ \E f \in Files : \E attached \in BOOLEAN : writeResolves(f, attached)
    /\ UNCHANGED <<scenario, fieldVars>>

WriteRejects ==
    /\ \E f \in Files : \E attached \in BOOLEAN : writeRejects(f, attached)
    /\ UNCHANGED <<scenario, fieldVars>>

ReadResolves ==
    /\ \E i \in 1..Len(cache) : \E content \in FileContents(cache[i].file) :
            readResolves(i, content)
    /\ UNCHANGED <<scenario, fieldVars>>

ReadRejects ==
    /\ \E i \in 1..Len(cache) : readRejects(i)
    /\ UNCHANGED <<scenario, fieldVars>>

OrphanReadResolves ==
    /\ \E f \in Files : \E content \in FileContents(f) : orphanReadResolves(f, content)
    /\ UNCHANGED <<scenario, fieldVars>>

OrphanReadRejects ==
    /\ \E f \in Files : orphanReadRejects(f)
    /\ UNCHANGED <<scenario, fieldVars>>

UpdateMetadataFileCache ==
    /\ \E f \in Files : \E m \in FileContents(f) : \E u \in {NoUuid, "u1"} :
            updateMetadataFileCache(m, f, u)
    /\ UNCHANGED <<scenario, fieldVars>>

UpdateProperty ==
    /\ \E c \in Consumers : \E v \in PushedValues(c) :
            updatePropertyInMetadataFileCache(v, c.metadataPath, c.file, c.uuid)
    /\ UNCHANGED <<scenario, fieldVars>>

FrontmatterUpdate ==
    /\ \E f \in Files : \E fm \in Frontmatters(f) :
            updateMetadataFileCacheOnFrontmatterUpdate(f, fm)
    /\ UNCHANGED <<scenario, fieldVars>>

Next ==
    \/ Register
    \/ Unregister
    \/ Update
    \/ WriteResolves
    \/ WriteRejects
    \/ ReadResolves
    \/ ReadRejects
    \/ OrphanReadResolves
    \/ OrphanReadRejects
    \/ UpdateMetadataFileCache
    \/ UpdateProperty
    \/ FrontmatterUpdate

Spec == Init /\ [][Next]_vars

(***************************************************************************)
(* The write queue of an input field (InputFieldMarkdownRenderChild, the   *)
(* version with valueQueue): updateMetaData(value) queues the value, and   *)
(* incrementInterval, run by a timer, passes the last queued value to      *)
(* plugin.updateMetaData, awaits it and then empties the queue.  The timer *)
(* does not wait for a run to finish.                                      *)
(***************************************************************************)
\* the registry's variables, which the field's steps leave alone
managerVars == <<scenario, cache, orphans, writes, issued, calls, last, pending, echo>>

\* updateMetaData(value) of a bound field
updateMetaData(value) ==
    /\ Len(valueQueue) < MaxQueue
    /\ valueQueue' = Append(valueQueue, value)
    /\ pushed' = value
    /\ UNCHANGED <<awaiting, passed>>

\* incrementInterval() up to its await
incrementInterval ==
    IF Len(valueQueue) > 0
    THEN /\ awaiting < MaxRuns
         /\ passed' = valueQueue[Len(valueQueue)]
         /\ awaiting' = awaiting + 1
         /\ UNCHANGED <<valueQueue, pushed>>
    ELSE UNCHANGED fieldVars

\* incrementInterval() after its await: this.valueQueue = []
incrementIntervalResumes ==
    /\ awaiting > 0
    /\ awaiting' = awaiting - 1
    /\ valueQueue' = <<>>
    /\ UNCHANGED <<pushed, passed>>

\* plugin.updateMetaData rejects: the run ends at its await
incrementIntervalRejects ==
    /\ awaiting > 0
    /\ awaiting' = awaiting - 1
    /\ UNCHANGED <<valueQueue, pushed, passed>>

FieldPushes ==
    /\ \E value \in FieldValues : updateMetaData(value)
    /\ UNCHANGED managerVars

IntervalFires ==
    /\ incrementInterval
    /\ UNCHANGED managerVars

IntervalResumes ==
    /\ incrementIntervalResumes
    /\ UNCHANGED managerVars

IntervalRejects ==
    /\ incrementIntervalRejects
    /\ UNCHANGED managerVars

FieldInit == Init /\ scenario = "values"

FieldNext ==
    \/ FieldPushes
    \/ IntervalFires
    \/ IntervalResumes
    \/ IntervalRejects

FieldSpec == FieldInit /\ [][FieldNext]_vars

(***************************************************************************)
(* Properties.                                                             *)
(***************************************************************************)
\* the index in a table of the cache of a file; 0 when it has none
IndexOf(table, file) ==
    IF \E i \in 1..Len(table) : table[i].file = file
    THEN CHOOSE i \in 1..Len(table) : table[i].file = file
    ELSE 0

HasCache(table, file) == IndexOf(table, file) # 0

CacheOf(table, file) == table[IndexOf(table, file)]

\* the bound path of the consumer with the uuid
PathOf(uuid) == (CHOOSE c \in Consumers : c.uuid = uuid).metadataPath

\* how often the callback of the j-th listener is among the calls
TimesCalled(cs, j) == Cardinality({k \in 1..Len(cs) : cs[k].listener = j})

(***************************************************************************)
(* C1.  A 'changed' event for a file whose cache has                       *)
(* cyclesSinceLastUpdate < 5 is dropped: the table (every cache's data,    *)
(* flag, counter and listeners) is unchanged and no callback is invoked.   *)
(* A property update that changes the data leaves the counter at 0, and    *)
(* the counter of a cache only ever grows by one, in an update() cycle: so *)
(* no event within 5 cycles of such an update alters the data.             *)
(***************************************************************************)
EchoDroppedStep ==
    /\ \A f \in Files :
            ( /\ last'.op = "frontmatterUpdate"
              /\ last'.file = f
              /\ HasCache(cache, f)
              /\ CacheOf(cache, f).cyclesSinceLastUpdate < 5 )
            => /\ cache' = cache
               /\ calls' = <<>>
    /\ \A f \in Files :
            ( /\ last'.op = "updateProperty"
              /\ last'.file = f
              /\ HasCache(cache, f)
              /\ CacheOf(cache', f).metadata # CacheOf(cache, f).metadata )
            => CacheOf(cache', f).cyclesSinceLastUpdate = 0
    /\ \A f \in Files :
            HasCache(cache', f)
            => \/ CacheOf(cache', f).cyclesSinceLastUpdate = 0
               \/ /\ HasCache(cache, f)
                  /\ CacheOf(cache', f).cyclesSinceLastUpdate
                        = CacheOf(cache, f).cyclesSinceLastUpdate
               \/ /\ HasCache(cache, f)
                  /\ last'.op = "update"
                  /\ CacheOf(cache', f).cyclesSinceLastUpdate
                        = CacheOf(cache, f).cyclesSinceLastUpdate + 1

EchoDropped == [][EchoDroppedStep]_vars

\* an event was dropped on a changed cache one cycle short of the threshold
EchoDroppedWitness ==
    /\ last.op = "frontmatterUpdate"
    /\ HasCache(cache, last.file)
    /\ CacheOf(cache, last.file).cyclesSinceLastUpdate = 4
    /\ CacheOf(cache, last.file).metadata # EmptyMetadata
    /\ CacheOf(cache, last.file).metadata # frontmatterCopy(last.arg)

(***************************************************************************)
(* C2.  A 'changed' event for a file whose cache has                       *)
(* cyclesSinceLastUpdate >= 5 is applied, and every listener of the cache, *)
(* whatever its path, is called exactly once with the value at its own     *)
(* path in the new data.                                                   *)
(***************************************************************************)
\* the event is for a cache of the table that is past the threshold
AppliesTo(f) ==
    /\ last'.op = "frontmatterUpdate"
    /\ last'.file = f
    /\ HasCache(cache, f)
    /\ CacheOf(cache, f).cyclesSinceLastUpdate >= 5

\* every listener of the file's cache is called once, with the value at its path
AllNotified(f) ==
    LET fileCache == CacheOf(cache', f)
    IN  /\ fileCache.listeners = CacheOf(cache, f).listeners
        /\ \A j \in 1..Len(fileCache.listeners) : TimesCalled(calls', j) = 1
        /\ \A k \in 1..Len(calls') :
                /\ calls'[k].listener \in 1..Len(fileCache.listeners)
                /\ calls'[k].uuid = fileCache.listeners[calls'[k].listener].uuid
                /\ calls'[k].value =
                        traverseObjectByPath(
                            fileCache.listeners[calls'[k].listener].metadataPath,
                            fileCache.metadata)

\* the event's frontmatter as a structured value, every key of it kept
SnapshotOf(frontmatter) ==
    IF frontmatter = Undef THEN EmptyMetadata ELSE Root(frontmatter.f)

\* the event's frontmatter without the position Obsidian keeps in it
SnapshotWithoutPosition(frontmatter) ==
    IF frontmatter = Undef THEN EmptyMetadata
    ELSE Root([x \in (DOMAIN frontmatter.f) \ {"position"} |-> frontmatter.f[x]])

\* C2 as stated: the data becomes the snapshot
ExternalChangeBecomesSnapshot ==
    [][\A f \in Files :
            AppliesTo(f) => /\ CacheOf(cache', f).metadata = SnapshotOf(last'.arg)
                            /\ AllNotified(f)]_vars

\* C2 as amended: the data becomes the snapshot without its position key
ExternalChangeApplied ==
    [][\A f \in Files :
            AppliesTo(f) => /\ CacheOf(cache', f).metadata
                                    = SnapshotWithoutPosition(last'.arg)
                            /\ AllNotified(f)]_vars

\* an event was applied to a cache with three listeners on two paths
ExternalChangeAppliedWitness ==
    /\ last.op = "frontmatterUpdate"
    /\ last.outcome = "applied"
    /\ last.arg # Undef
    /\ Len(calls) = 3
    /\ \E j, k \in 1..3 : calls[j].value # calls[k].value

(***************************************************************************)
(* C3.  A property update that changes the data calls, within the call,    *)
(* exactly once and with the new value, every listener of the cache whose  *)
(* path is the updated path and whose uuid is not the origin's; it calls   *)
(* neither the origin nor a listener of any other path.                    *)
(***************************************************************************)
PropertyUpdateNotifiesStep ==
    \A f \in Files :
        ( /\ last'.op = "updateProperty"
          /\ last'.file = f
          /\ HasCache(cache, f)
          /\ CacheOf(cache', f).metadata # CacheOf(cache, f).metadata )
        => LET fileCache == CacheOf(cache', f)
               origin == last'.uuid
               path == PathOf(origin)
               Matches(listener) ==
                    listener.metadataPath = path /\ listener.uuid # origin
           IN  /\ fileCache.listeners = CacheOf(cache, f).listeners
               /\ \A j \in 1..Len(fileCache.listeners) :
                    TimesCalled(calls', j) =
                        IF Matches(fileCache.listeners[j]) THEN 1 ELSE 0
               /\ \A k \in 1..Len(calls') :
                    /\ calls'[k].listener \in 1..Len(fileCache.listeners)
                    /\ calls'[k].uuid = fileCache.listeners[calls'[k].listener].uuid
                    /\ calls'[k].value = last'.arg

PropertyUpdateNotifies == [][PropertyUpdateNotifiesStep]_vars

\* u1 changed a.b while u1, u2 (same path) and u3 (the parent path) listened:
\* u2 alone was called
PropertyUpdateNotifiesWitness ==
    /\ last.op = "updateProperty"
    /\ last.outcome = "set"
    /\ last.uuid = "u1"
    /\ HasCache(cache, last.file)
    /\ Len(CacheOf(cache, last.file).listeners) = 3
    /\ Len(calls) = 1
    /\ calls[1].uuid = "u2"
    /\ calls[1].value = last.arg

(***************************************************************************)
(* C4.  A property update whose value is deep-equal to the value stored at *)
(* the path (a structurally equal but distinct object included) changes    *)
(* nothing of the cache (data, changed, cyclesSinceLastUpdate, hence the   *)
(* writes of the next cycle) and calls no listener.                        *)
(***************************************************************************)
\* the update is of a value deep-equal to the one stored at the path in f
IsDeepEqualUpdate(f) ==
    /\ last'.op = "updateProperty"
    /\ last'.file = f
    /\ HasCache(cache, f)
    /\ LET path == PathOf(last'.uuid)
           data == CacheOf(cache, f).metadata
       IN  /\ traverseObjectByPath(SubSeq(path, 1, Len(path) - 1), data) # Undef
           /\ DeepEquals(traverseObjectByPath(path, data), last'.arg)

DeepEqualUpdateIsNoOp ==
    [][\A f \in Files : IsDeepEqualUpdate(f) => cache' = cache /\ calls' = <<>>]_vars

(***************************************************************************)
(* C5.  A property update on a path whose parent does not exist in the     *)
(* data throws, changes nothing of the cache and calls no listener; on a   *)
(* path whose ancestors exist and whose last segment is absent it succeeds *)
(* and creates the key.                                                    *)
(***************************************************************************)
MissingParentStep ==
    \A f \in Files :
        ( /\ last'.op = "updateProperty"
          /\ last'.file = f
          /\ HasCache(cache, f) )
        => LET path == PathOf(last'.uuid)
               data == CacheOf(cache, f).metadata
               parent == traverseObjectByPath(SubSeq(path, 1, Len(path) - 1), data)
               child == traverseObjectByPath(path, data)
           IN  /\ parent = Undef
                    => /\ last'.outcome = "throwsParentMissing"
                       /\ cache' = cache
                       /\ calls' = <<>>
               /\ (parent # Undef /\ child = Undef)
                    => /\ last'.outcome = "set"
                       /\ traverseObjectByPath(path, CacheOf(cache', f).metadata)
                            = last'.arg

MissingParentFailsAbsentKeyCreated == [][MissingParentStep]_vars

(***************************************************************************)
(* C6.  In every reachable state the table holds at most one cache per     *)
(* file and every cache of the table has a listener; a cache leaves the    *)
(* table only in the unregister that removes its last listener.            *)
(***************************************************************************)
OneCachePerFile(table) ==
    \A i, j \in 1..Len(table) : table[i].file = table[j].file => i = j

EveryCacheListened(table) ==
    \A i \in 1..Len(table) : Len(table[i].listeners) >= 1

LeavesOnlyUnused ==
    \A f \in Files :
        (HasCache(cache, f) /\ ~HasCache(cache', f))
        => /\ last'.op = "unregister"
           /\ last'.file = f
           /\ \A j \in 1..Len(CacheOf(cache, f).listeners) :
                    CacheOf(cache, f).listeners[j].uuid = last'.uuid

CacheIffListened ==
    [][/\ OneCachePerFile(cache')
       /\ EveryCacheListened(cache')
       /\ LeavesOnlyUnused]_vars

\* of the caches of two files, one was deleted with its last listener and the
\* other stays
CacheIffListenedWitness ==
    /\ last.op = "unregister"
    /\ last.outcome = "deleted"
    /\ ~HasCache(cache, last.file)
    /\ Len(cache) = 1
    /\ Len(cache[1].listeners) = 1

(***************************************************************************)
(* C7.  The unregister of a file's last listener removes the file's cache  *)
(* within the call; a register that finds no cache for the file creates    *)
(* one with empty metadata, changed = false and cyclesSinceLastUpdate = 0  *)
(* and starts a read; no callback ever receives a value that is not the    *)
(* one at its path in the cache the table holds for its file.              *)
(***************************************************************************)
LastUnregisterDeletes ==
    \A f \in Files :
        ( /\ last'.op = "unregister"
          /\ last'.file = f
          /\ HasCache(cache, f)
          /\ \A j \in 1..Len(CacheOf(cache, f).listeners) :
                CacheOf(cache, f).listeners[j].uuid = last'.uuid )
        => ~HasCache(cache', f)

RegisterStartsFresh ==
    \A f \in Files :
        ( /\ last'.op = "register"
          /\ last'.file = f
          /\ ~HasCache(cache, f) )
        => /\ HasCache(cache', f)
           /\ CacheOf(cache', f).metadata = EmptyMetadata
           /\ CacheOf(cache', f).changed = FALSE
           /\ CacheOf(cache', f).cyclesSinceLastUpdate = 0
           /\ CacheOf(cache', f).reading
           /\ Len(CacheOf(cache', f).listeners) = 1
           /\ CacheOf(cache', f).listeners[1].uuid = last'.uuid
           /\ calls' = <<>>

OnlyTableDataExposed ==
    /\ calls' # <<>> => HasCache(cache', last'.file)
    /\ \A k \in 1..Len(calls') :
            calls'[k].value =
                traverseObjectByPath(PathOf(calls'[k].uuid),
                                     CacheOf(cache', last'.file).metadata)
    /\ last'.op \in {"updateFrontmatter", "cachedRead"}
       /\ last'.outcome \in {"resolvedDetached", "rejectedDetached"}
            => cache' = cache

DeletedCacheNeverReused ==
    [][LastUnregisterDeletes /\ RegisterStartsFresh /\ OnlyTableDataExposed]_vars

\* a file is registered anew while a write of its deleted cache is in flight
DeletedCacheNeverReusedWitness ==
    /\ last.op = "register"
    /\ last.outcome = "created"
    /\ writes[last.file].detached > 0
    /\ CacheOf(cache, last.file).metadata = EmptyMetadata

(***************************************************************************)
(* C8.  An update() cycle calls setFrontmatterOfTFile exactly once, with   *)
(* the cache's metadata, for every cache of the table that is changed, and *)
(* clears changed; it calls it for no other cache; it adds one to every    *)
(* cache's cyclesSinceLastUpdate.                                          *)
(***************************************************************************)
WritesIssuedFor(log, file) ==
    {k \in 1..Len(log) : log[k].file = file}

UpdateCycleStep ==
    last'.op = "update"
    => /\ Len(cache') = Len(cache)
       /\ \A i \in 1..Len(cache) :
            /\ cache'[i].file = cache[i].file
            /\ cache'[i].metadata = cache[i].metadata
            /\ cache'[i].cyclesSinceLastUpdate = cache[i].cyclesSinceLastUpdate + 1
            /\ cache'[i].changed = FALSE
            /\ Cardinality(WritesIssuedFor(issued', cache[i].file))
                    = IF cache[i].changed THEN 1 ELSE 0
            /\ \A k \in WritesIssuedFor(issued', cache[i].file) :
                    issued'[k].metadata = cache[i].metadata
       /\ \A k \in 1..Len(issued') : HasCache(cache, issued'[k].file)

UpdateCycleWritesChanged == [][UpdateCycleStep]_vars

\* a cycle over two caches, of which one was changed and was written
UpdateCycleWritesChangedWitness ==
    /\ last.op = "update"
    /\ Len(cache) = 2
    /\ Len(issued) = 1
    /\ issued[1].metadata # EmptyMetadata
    /\ \A i \in 1..2 : ~cache[i].changed /\ cache[i].cyclesSinceLastUpdate >= 1

(***************************************************************************)
(* C9.  No two writes of one cache are in flight at once: an update()      *)
(* cycle that finds a cache changed while its previous write has not       *)
(* settled issues no write for it and leaves it changed.                   *)
(***************************************************************************)
WritesSerializedStep ==
    /\ \A f \in Files : writes'[f].attached <= 1
    /\ last'.op = "update"
       => \A i \in 1..Len(cache) :
            (cache[i].changed /\ writes[cache[i].file].attached > 0)
            => /\ cache'[i].changed
               /\ WritesIssuedFor(issued', cache[i].file) = {}

WritesSerialized == [][WritesSerializedStep]_vars

(***************************************************************************)
(* C10.  After a write issued by update() has failed the cache is changed, *)
(* so that the next cycle writes again; after the first read has failed    *)
(* the cache is empty and no listener was called.                          *)
(***************************************************************************)
FailedWriteKeepsChanged ==
    /\ ( /\ last.op = "updateFrontmatter"
         /\ last.outcome = "rejected"
         /\ HasCache(cache, last.file) )
       => CacheOf(cache, last.file).changed
    /\ ( /\ last.op = "cachedRead"
         /\ last.outcome = "rejected"
         /\ HasCache(cache, last.file) )
       => calls = <<>>

(***************************************************************************)
(* C11.  Two property updates of one cache at paths of which neither is a  *)
(* prefix of the other, with no accepted 'changed' event between them, are *)
(* merged: after the second the metadata holds both values, and the write  *)
(* of the next update() cycle carries both.                                *)
(***************************************************************************)
\* the metadata holds every update of the file that no write has carried
HoldsPending(table, edits, f) ==
    \A p \in DOMAIN edits[f] :
        traverseObjectByPath(p, CacheOf(table, f).metadata) = edits[f][p]

EditsMergedStep ==
    \A f \in Files :
        /\ ( /\ last'.op = "updateProperty"
             /\ last'.file = f
             /\ last'.outcome \in {"set", "skipped"}
             /\ Cardinality(DOMAIN pending'[f]) >= 2 )
           => HoldsPending(cache', pending', f)
        /\ ( /\ last'.op = "update"
             /\ HasCache(cache, f)
             /\ CacheOf(cache, f).changed
             /\ Cardinality(DOMAIN pending[f]) >= 2 )
           => pending'[f] = NoEdits

EditsMerged == [][EditsMergedStep]_vars

(***************************************************************************)
(* C12.  While a cache stays in the table and update() cycles keep coming, *)
(* every property update that changed the metadata is followed by a write  *)
(* that carries it (or a later value of the path): a cache that is not     *)
(* changed has no update that no write has carried.                        *)
(***************************************************************************)
EveryEditWritten ==
    \A f \in Files :
        (HasCache(cache, f) /\ ~CacheOf(cache, f).changed) => pending[f] = NoEdits

(***************************************************************************)
(* C13.  When the cachedRead that register started for a cache resolves,   *)
(* the cache's metadata becomes the metadata read and every listener the   *)
(* cache has then, also one registered while the read was pending, is      *)
(* called exactly once with the value at its own path; a read is started   *)
(* when a cache is created and at no other time.                           *)
(***************************************************************************)
LoadResolvedStep ==
    \A f \in Files :
        ( /\ last'.op = "cachedRead"
          /\ last'.outcome = "resolved"
          /\ last'.file = f )
        => /\ HasCache(cache, f)
           /\ CacheOf(cache, f).reading
           /\ HasCache(cache', f)
           /\ ~CacheOf(cache', f).reading
           /\ CacheOf(cache', f).metadata \in FileContents(f)
           /\ AllNotified(f)

OneLoadPerCache ==
    \A f \in Files :
        /\ (last'.op = "register" /\ last'.file = f /\ last'.outcome = "created")
           => ReadsOf(cache', f) = 1 /\ orphans' = orphans
        /\ (HasCache(cache', f) /\ CacheOf(cache', f).reading)
           => \/ HasCache(cache, f) /\ CacheOf(cache, f).reading
              \/ last'.op = "register" /\ last'.file = f /\ last'.outcome = "created"

LoadNotifiesAll == [][LoadResolvedStep /\ OneLoadPerCache]_vars

\* the read resolved on a cache with three listeners, two of them registered
\* after the read began, and each was called
LoadNotifiesAllWitness ==
    /\ last.op = "cachedRead"
    /\ last.outcome = "resolved"
    /\ Len(CacheOf(cache, last.file).listeners) = 3
    /\ Len(calls) = 3
    /\ \A k \in 1..3 : calls[k].value # Undef

(***************************************************************************)
(* C14.  register for a file that has a cache appends the listener and     *)
(* nothing else: no read is started (also while the first is pending), no  *)
(* callback is invoked, no write is issued, and the cache's metadata,      *)
(* changed flag and cyclesSinceLastUpdate are unchanged.                   *)
(***************************************************************************)
RegisterExistingStep ==
    \A f \in Files :
        ( /\ last'.op = "register"
          /\ last'.file = f
          /\ HasCache(cache, f) )
        => /\ cache' = [cache EXCEPT ![IndexOf(cache, f)].listeners =
                            Append(@, [uuid |-> last'.uuid,
                                       metadataPath |-> PathOf(last'.uuid)])]
           /\ calls' = <<>>
           /\ issued' = <<>>
           /\ orphans' = orphans
           /\ writes' = writes

RegisterExistingAppends == [][RegisterExistingStep]_vars

\* a second field registered on a cache whose read was pending and that a
\* property update had already changed
RegisterExistingAppendsWitness ==
    /\ last.op = "register"
    /\ last.outcome = "existing"
    /\ Len(CacheOf(cache, last.file).listeners) = 2
    /\ CacheOf(cache, last.file).reading
    /\ CacheOf(cache, last.file).changed
    /\ CacheOf(cache, last.file).metadata # EmptyMetadata

(***************************************************************************)
(* C15.  The unregister of the last listener of a changed cache issues no  *)
(* write and removes the cache; no later update() cycle writes for the     *)
(* file while it has no cache, and a write is only ever issued by update() *)
(* for a cache of the table, with that cache's metadata: the updates the   *)
(* removed cache had not written are never written.                        *)
(***************************************************************************)
TotalInFlight(w, f) == w[f].attached + w[f].detached

UnflushedDroppedStep ==
    /\ \A f \in Files :
            ( /\ last'.op = "unregister"
              /\ last'.file = f
              /\ HasCache(cache, f)
              /\ \A j \in 1..Len(CacheOf(cache, f).listeners) :
                    CacheOf(cache, f).listeners[j].uuid = last'.uuid )
            => /\ ~HasCache(cache', f)
               /\ issued' = <<>>
               /\ TotalInFlight(writes', f) = TotalInFlight(writes, f)
               /\ pending'[f] = pending[f]
    /\ \A f \in Files :
            (~HasCache(cache, f) /\ last'.op = "update")
            => /\ WritesIssuedFor(issued', f) = {}
               /\ TotalInFlight(writes', f) = TotalInFlight(writes, f)
               /\ pending'[f] = pending[f]
    /\ last'.op # "update"
       => /\ issued' = <<>>
          /\ \A f \in Files : TotalInFlight(writes', f) <= TotalInFlight(writes, f)

UnflushedDropped == [][UnflushedDroppedStep]_vars

\* the last listener left a cache whose property update no write had carried
\* and no write is in flight
UnflushedDroppedWitness ==
    /\ last.op = "unregister"
    /\ last.outcome = "deleted"
    /\ pending[last.file] # NoEdits
    /\ TotalInFlight(writes, last.file) = 0
    /\ ~HasCache(cache, last.file)

(***************************************************************************)
(* C16.  A read or a write that settles after unregister removed its cache *)
(* changes nothing of the table and invokes no callback, also when the     *)
(* file has a new cache by then.                                           *)
(***************************************************************************)
DetachedSettlesStep ==
    last'.outcome \in {"resolvedDetached", "rejectedDetached"}
    => /\ cache' = cache
       /\ calls' = <<>>
       /\ issued' = <<>>

DetachedSettlesAlone == [][DetachedSettlesStep]_vars

\* the read of a removed cache resolved while the file's new cache, with a
\* listener, was waiting for its own read
DetachedSettlesAloneWitness ==
    /\ last.op = "cachedRead"
    /\ last.outcome = "resolvedDetached"
    /\ HasCache(cache, last.file)
    /\ Len(CacheOf(cache, last.file).listeners) >= 1
    /\ CacheOf(cache, last.file).reading

(***************************************************************************)
(* C17.  A property update for a file that has no cache (never registered, *)
(* or removed by unregister) throws to the caller instead of returning     *)
(* silently, and leaves the table unchanged.                               *)
(***************************************************************************)
Throws(outcome) == outcome \in {"throwsParentMissing", "throwsTypeError"}

UpdateWithoutCacheThrows ==
    [][\A f \in Files :
            ( /\ last'.op = "updateProperty"
              /\ last'.file = f
              /\ ~HasCache(cache, f) )
            => Throws(last'.outcome) /\ cache' = cache]_vars

(***************************************************************************)
(* C18.  A property update accepted while the first read of the cache is   *)
(* pending is not lost: when the read resolves the metadata still holds    *)
(* the value, and the write of the next update() cycle carries it.         *)
(***************************************************************************)
EditSurvivesLoadStep ==
    \A f \in Files :
        /\ ( /\ last'.op = "cachedRead"
             /\ last'.outcome = "resolved"
             /\ last'.file = f )
           => HoldsPending(cache', pending, f)
        /\ ( /\ last.op = "cachedRead"
             /\ last.outcome = "resolved"
             /\ last.file = f
             /\ last'.op = "update" )
           => pending'[f] = NoEdits

EditSurvivesLoad == [][EditSurvivesLoadStep]_vars

(***************************************************************************)
(* C19.  The accept-write-echo cycle ends: an accepted 'changed' event     *)
(* marks the cache changed with cyclesSinceLastUpdate = 0, the next        *)
(* update() cycle writes the accepted metadata once, and the 'changed'     *)
(* event that reports this write back (its frontmatter is the metadata of  *)
(* the cache, which nothing has changed since) is dropped, so that no      *)
(* further write follows.                                                  *)
(***************************************************************************)
AcceptedIsWrittenOnce ==
    \A f \in Files :
        /\ ( /\ last'.op = "frontmatterUpdate"
             /\ last'.file = f
             /\ last'.outcome = "applied" )
           => /\ CacheOf(cache', f).changed
              /\ CacheOf(cache', f).cyclesSinceLastUpdate = 0
        /\ ( /\ last.op = "frontmatterUpdate"
             /\ last.file = f
             /\ last.outcome = "applied"
             /\ last'.op = "update" )
           => /\ Cardinality(WritesIssuedFor(issued', f)) = 1
              /\ \A k \in WritesIssuedFor(issued', f) :
                    issued'[k].metadata = SnapshotWithoutPosition(last.arg)
              /\ ~CacheOf(cache', f).changed

\* the event reports the metadata that the cache accepted and has written
\* back, and that nothing has changed since
IsEchoOfWrite(f) ==
    /\ last'.op = "frontmatterUpdate"
    /\ last'.file = f
    /\ HasCache(cache, f)
    /\ echo[f] = "written"
    /\ ~CacheOf(cache, f).changed
    /\ SnapshotWithoutPosition(last'.arg) = CacheOf(cache, f).metadata

EchoOfWriteDropped ==
    \A f \in Files : IsEchoOfWrite(f) => cache' = cache /\ calls' = <<>>

EchoCycleStops == [][AcceptedIsWrittenOnce /\ EchoOfWriteDropped]_vars

(***************************************************************************)
(* C20.  The value an input field pushed last through updateMetaData is    *)
(* passed to plugin.updateMetaData by some incrementInterval run: a value  *)
(* pushed while a run awaits its write is not dropped when the run empties *)
(* the queue, so whenever the queue is empty and no run is awaiting, the   *)
(* value passed on last is the value pushed last.                          *)
(***************************************************************************)
LastPushedValueWritten ==
    (valueQueue = <<>> /\ awaiting = 0) => passed = pushed

====
